---- MODULE Spec2Model ----
(***************************************************************************)
(* The rate limit gate of ai-hero: the daily request limit of              *)
(* src/server/db/queries.ts (checkRateLimit returning a decision record,   *)
(* over the table userRequests) and the gate used by the chat route        *)
(* (checkRateLimit returning a boolean and recordRequest, over the table   *)
(* requests, called by POST).                                              *)
(*                                                                         *)
(* Time is counted in ticks of the server clock; DayLen ticks make one     *)
(* day.  An instant is a number of ticks since the epoch, in UTC.  The     *)
(* server's time zone is an offset in ticks: local time = UTC + tz.        *)
(***************************************************************************)
EXTENDS Integers, Sequences, FiniteSets, TLC

----------------------------------------------------------------------------
(* Bounds of the model *)

DayLen == 2            \* ticks per calendar day
MaxTz == 1             \* the server is MaxTz ticks west or east of UTC, or in UTC
MaxLimit == 2          \* DAILY_REQUEST_LIMIT ranges over 0..MaxLimit
MaxPerDay == 1         \* REQUESTS_PER_DAY ranges over 0..MaxPerDay
MaxRecords == 3        \* rows the table userRequests may hold
NumReqs == 2           \* POST requests that may be in flight

FirstInstant == DayLen
LastInstant == FirstInstant + DayLen
TZOffsets == {0 - MaxTz, 0, MaxTz}
Limits == {0, 1, MaxLimit}
ReqIds == 1..NumReqs

(* User identifiers: alice is a user with isAdmin = false, root a user     *)
(* with isAdmin = true, ghost an identifier with no row in users.          *)
UserIds == {"alice", "root", "ghost"}
NoUser == "-"

VARIABLES
  now,                  \* the server clock (new Date(), and the tables' default now())
  tz,                   \* the server's time zone offset
  users,                \* table users: id -> row
  userRequests,         \* table userRequests (queries.ts): sequence of rows
  DAILY_REQUEST_LIMIT,  \* the limit configured in queries.ts (line 5 sets 1)
  last,                 \* the last call made on queries.ts and what it returned
  requests,             \* table requests (the gate of the chat route)
  REQUESTS_PER_DAY,     \* the limit configured for the chat route's gate (line 5 sets 1)
  proc,                 \* the POST requests: position and locals of each
  overlapped            \* users whose requests overlapped in the gate

vars == <<now, tz, users, userRequests, DAILY_REQUEST_LIMIT, last,
          requests, REQUESTS_PER_DAY, proc, overlapped>>

gateVars == <<userRequests, DAILY_REQUEST_LIMIT, last>>
postVars == <<requests, REQUESTS_PER_DAY, proc, overlapped>>

----------------------------------------------------------------------------
(* Dates *)

Max(a, b) == IF a >= b THEN a ELSE b

(* Date.prototype.setUTCHours(0, 0, 0, 0): midnight of the UTC day of t *)
setUTCHours0(t) == (t \div DayLen) * DayLen

(* Date.prototype.setHours(0, 0, 0, 0): midnight of the day of t in the    *)
(* server's time zone z, as a UTC instant                                  *)
setHours0(t, z) == ((t + z) \div DayLen) * DayLen - z

----------------------------------------------------------------------------
(* The data store *)

(* select count() from table where userId = u and column >= since *)
(* The where clause without its userId condition *)
countWhere_noUserId(table, u, since) ==
  Cardinality({i \in DOMAIN table : table[i].createdAt >= since})

countWhere(table, u, since) ==
  Cardinality({i \in DOMAIN table : table[i].userId = u /\ table[i].createdAt >= since})

(* insert into table values {userId}: the creation column defaults to now *)
insertRow(table, u, t) == Append(table, [userId |-> u, createdAt |-> t])

(* select from users where id = u limit 1: the rows found *)
selectUser(u) == IF u \in DOMAIN users THEN <<users[u]>> ELSE <<>>

----------------------------------------------------------------------------
(* src/server/db/queries.ts *)

(* The flag never read: every user taken for a non-admin *)
isUserAdmin_never(u) == FALSE

(* A missing row taken for an admin *)
isUserAdmin_absentIsAdmin(u) ==
  LET user == selectUser(u)
  IN  IF Len(user) > 0 THEN user[1].isAdmin ELSE TRUE

isUserAdmin(u) ==
  LET user == selectUser(u)
  IN  IF Len(user) > 0 THEN user[1].isAdmin ELSE FALSE

(* gt in place of gte: a row created at midnight is left out *)
getUserDailyRequestCount_gt(u) ==
  LET today == setHours0(now, tz)
  IN  countWhere(userRequests, u, today + 1)

(* The userId condition left out: the rows of every user are counted *)
getUserDailyRequestCount_anyUser(u) ==
  LET today == setHours0(now, tz)
  IN  Cardinality({i \in DOMAIN userRequests : userRequests[i].createdAt >= today})

getUserDailyRequestCount(u) ==
  LET today == setHours0(now, tz)
  IN  countWhere(userRequests, u, today)

(* remaining without Math.max *)
checkRateLimit_noMax(u) ==
  IF isUserAdmin(u)
  THEN [allowed |-> TRUE, remaining |-> -1, limit |-> -1, counted |-> FALSE]
  ELSE LET dailyCount == getUserDailyRequestCount(u)
           remaining == DAILY_REQUEST_LIMIT - dailyCount
       IN  [allowed |-> dailyCount < DAILY_REQUEST_LIMIT,
            remaining |-> remaining,
            limit |-> DAILY_REQUEST_LIMIT,
            counted |-> TRUE]

(* allowed with <= in place of < *)
checkRateLimit_le(u) ==
  IF isUserAdmin(u)
  THEN [allowed |-> TRUE, remaining |-> -1, limit |-> -1, counted |-> FALSE]
  ELSE LET dailyCount == getUserDailyRequestCount(u)
           remaining == Max(0, DAILY_REQUEST_LIMIT - dailyCount)
       IN  [allowed |-> dailyCount <= DAILY_REQUEST_LIMIT,
            remaining |-> remaining,
            limit |-> DAILY_REQUEST_LIMIT,
            counted |-> TRUE]

(* checkRateLimit returns a decision; counted tells whether it ran         *)
(* getUserDailyRequestCount on the way                                     *)
checkRateLimit(u) ==
  IF isUserAdmin(u)
  THEN [allowed |-> TRUE, remaining |-> -1, limit |-> -1, counted |-> FALSE]
  ELSE LET dailyCount == getUserDailyRequestCount(u)
           remaining == Max(0, DAILY_REQUEST_LIMIT - dailyCount)
       IN  [allowed |-> dailyCount < DAILY_REQUEST_LIMIT,
            remaining |-> remaining,
            limit |-> DAILY_REQUEST_LIMIT,
            counted |-> TRUE]

(* The row inserted twice *)
addUserRequest_twice(u) ==
  /\ Len(userRequests) < MaxRecords
  /\ userRequests' = insertRow(insertRow(userRequests, u, now), u, now)

(* The rows of earlier days deleted on the way *)
addUserRequest_prune(u) ==
  /\ Len(userRequests) < MaxRecords
  /\ userRequests' = insertRow(SelectSeq(userRequests,
                                 LAMBDA row : row.createdAt >= setHours0(now, tz)),
                               u, now)

addUserRequest(u) ==
  /\ Len(userRequests) < MaxRecords
  /\ userRequests' = insertRow(userRequests, u, now)

(* Calls of the exported functions, each recorded in last: the function,  *)
(* its argument and what it returned; prior is the user's count before an  *)
(* addUserRequest, handed on to a getUserDailyRequestCount that follows it *)
(* at once (-1 otherwise)                                                  *)

CallCheckRateLimit(u) ==
  /\ last' = [op |-> "checkRateLimit", user |-> u, result |-> checkRateLimit(u),
              prior |-> -1]
  /\ UNCHANGED <<now, tz, users, userRequests, DAILY_REQUEST_LIMIT, postVars>>

CallGetUserDailyRequestCount(u) ==
  /\ last' = [op |-> "getUserDailyRequestCount", user |-> u,
              result |-> getUserDailyRequestCount(u),
              prior |-> IF last.op = "addUserRequest" /\ last.user = u
                        THEN last.prior ELSE -1]
  /\ UNCHANGED <<now, tz, users, userRequests, DAILY_REQUEST_LIMIT, postVars>>

CallIsUserAdmin(u) ==
  /\ last' = [op |-> "isUserAdmin", user |-> u, result |-> isUserAdmin(u), prior |-> -1]
  /\ UNCHANGED <<now, tz, users, userRequests, DAILY_REQUEST_LIMIT, postVars>>

CallAddUserRequest(u) ==
  /\ addUserRequest(u)
  /\ last' = [op |-> "addUserRequest", user |-> u, result |-> 0,
              prior |-> getUserDailyRequestCount(u)]
  /\ UNCHANGED <<now, tz, users, DAILY_REQUEST_LIMIT, postVars>>

(* The server clock advances *)
TickGate ==
  /\ now < LastInstant
  /\ now' = now + 1
  /\ last' = [op |-> "tick", user |-> NoUser, result |-> 0, prior |-> -1]
  /\ UNCHANGED <<tz, users, userRequests, DAILY_REQUEST_LIMIT, postVars>>

----------------------------------------------------------------------------
(* The gate of the chat route: checkRateLimit (boolean) and recordRequest  *)
(* over the table requests, and the route handler POST that calls them.    *)
(* A request runs from one await to the next in one step; requests are    *)
(* numbered in their order of arrival.  Each request keeps, besides its    *)
(* locals (user, startOfDay until the count is back, and seen: the count   *)
(* it was admitted on), the rows it inserted (wrote) and the chat upserts  *)
(* it made (upserts).  overlapped holds the users of whom one request entered *)
(* checkRateLimit while another was between its check and its record.      *)

(* checkRateLimit of the route as one call on a table: true for an admin, *)
(* else whether the rows of the user since UTC midnight are fewer than the *)
(* limit                                                                   *)
checkRateLimitBoolean(table, limit, u) ==
  LET user == selectUser(u)
  IN  IF Len(user) > 0 /\ user[1].isAdmin
      THEN TRUE
      ELSE LET startOfDay == setUTCHours0(now)
               requestCount == countWhere(table, u, startOfDay)
           IN  requestCount < limit

(* A request not yet received *)
IdleProc ==
  [pc |-> "idle", user |-> NoUser, startOfDay |-> 0, seen |-> 0, wrote |-> {},
   upserts |-> 0, failed |-> "none"]

InGate == {"findFirst", "count", "insert"}

(* After its record a request touches neither the table requests nor the   *)
(* clock: its remaining awaits (upsertChat, the chat lookup) commute with  *)
(* every step of the other requests.  The model runs them before any other *)
(* step is taken, which leaves out no state of the table.                  *)
Settling == \E q \in ReqIds : proc[q].pc \in {"upsertChat", "findChat"}

(* const session = await auth(); if (!session?.user) return 401;           *)
(* await request.json(); then checkRateLimit(session.user.id) is entered   *)
POST_auth(r) ==
  /\ proc[r].pc = "idle"
  /\ ~Settling
  /\ IF r = 1 THEN TRUE ELSE proc[r - 1].pc # "idle"
  /\ \/ /\ proc' = [proc EXCEPT ![r].pc = "r401"]
        /\ UNCHANGED overlapped
     \/ \E u \in UserIds :
          /\ proc' = [proc EXCEPT ![r].pc = "findFirst", ![r].user = u]
          /\ overlapped' =
               IF \E q \in ReqIds \ {r} : proc[q].user = u /\ proc[q].pc \in InGate
               THEN overlapped \cup {u} ELSE overlapped
  /\ UNCHANGED <<now, tz, users, gateVars, requests, REQUESTS_PER_DAY>>

(* The instant not truncated to midnight: the window starts now *)
checkRateLimit_findFirst_noTruncate(r) ==
  /\ proc[r].pc = "findFirst"
  /\ ~Settling
  /\ LET user == selectUser(proc[r].user)
     IN  IF Len(user) > 0 /\ user[1].isAdmin
         THEN proc' = [proc EXCEPT ![r].pc = "insert"]
         ELSE proc' = [proc EXCEPT ![r].pc = "count",
                                   ![r].startOfDay = now]
  /\ UNCHANGED <<now, tz, users, gateVars, requests, REQUESTS_PER_DAY, overlapped>>

(* checkRateLimit: db.query.users.findFirst resolves; an admin is let      *)
(* through, otherwise startOfDay is taken and the count query is sent      *)
checkRateLimit_findFirst(r) ==
  /\ proc[r].pc = "findFirst"
  /\ ~Settling
  /\ LET user == selectUser(proc[r].user)
     IN  IF Len(user) > 0 /\ user[1].isAdmin
         THEN proc' = [proc EXCEPT ![r].pc = "insert"]
         ELSE proc' = [proc EXCEPT ![r].pc = "count",
                                   ![r].startOfDay = setUTCHours0(now)]
  /\ UNCHANGED <<now, tz, users, gateVars, requests, REQUESTS_PER_DAY, overlapped>>

(* The count compared with <= in place of < *)
checkRateLimit_count_le(r) ==
  /\ proc[r].pc = "count"
  /\ ~Settling
  /\ LET requestCount == countWhere(requests, proc[r].user, proc[r].startOfDay)
     IN  IF requestCount <= REQUESTS_PER_DAY
         THEN proc' = [proc EXCEPT ![r].pc = "insert", ![r].startOfDay = 0,
                                   ![r].seen = requestCount]
         ELSE proc' = [proc EXCEPT ![r].pc = "r429", ![r].startOfDay = 0]
  /\ UNCHANGED <<now, tz, users, gateVars, requests, REQUESTS_PER_DAY, overlapped>>

(* checkRateLimit: the count query resolves; POST returns 429 on false     *)
(* != written for <: every count but the limit itself admits *)
checkRateLimit_count_ne(r) ==
  /\ proc[r].pc = "count"
  /\ ~Settling
  /\ LET requestCount == countWhere(requests, proc[r].user, proc[r].startOfDay)
     IN  IF requestCount # REQUESTS_PER_DAY
         THEN proc' = [proc EXCEPT ![r].pc = "insert", ![r].startOfDay = 0,
                                   ![r].seen = requestCount]
         ELSE proc' = [proc EXCEPT ![r].pc = "r429", ![r].startOfDay = 0]
  /\ UNCHANGED <<now, tz, users, gateVars, requests, REQUESTS_PER_DAY, overlapped>>

checkRateLimit_count(r) ==
  /\ proc[r].pc = "count"
  /\ ~Settling
  /\ LET requestCount == countWhere(requests, proc[r].user, proc[r].startOfDay)
     IN  IF requestCount < REQUESTS_PER_DAY
         THEN proc' = [proc EXCEPT ![r].pc = "insert", ![r].startOfDay = 0,
                                   ![r].seen = requestCount]
         ELSE proc' = [proc EXCEPT ![r].pc = "r429", ![r].startOfDay = 0]
  /\ UNCHANGED <<now, tz, users, gateVars, requests, REQUESTS_PER_DAY, overlapped>>

(* The row inserted twice *)
recordRequest_twice(r) ==
  /\ proc[r].pc = "insert"
  /\ ~Settling
  /\ Len(requests) < MaxRecords
  /\ requests' = insertRow(insertRow(requests, proc[r].user, now), proc[r].user, now)
  /\ \E next \in {"r400", "upsertChat", "findChat"} :
       proc' = [proc EXCEPT ![r].pc = next,
                            ![r].wrote = proc[r].wrote \cup {Len(requests) + 1}]
  /\ UNCHANGED <<now, tz, users, gateVars, REQUESTS_PER_DAY, overlapped>>

(* The record left out: POST goes on without the insert *)
recordRequest_skip(r) ==
  /\ proc[r].pc = "insert"
  /\ ~Settling
  /\ Len(requests) < MaxRecords
  /\ requests' = requests
  /\ \E next \in {"r400", "upsertChat", "findChat"} :
       proc' = [proc EXCEPT ![r].pc = next]
  /\ UNCHANGED <<now, tz, users, gateVars, REQUESTS_PER_DAY, overlapped>>

(* The body validated first: an empty messages list answers 400 before    *)
(* any row is written                                                      *)
recordRequest_afterValidation(r) ==
  /\ proc[r].pc = "insert"
  /\ ~Settling
  /\ Len(requests) < MaxRecords
  /\ \/ /\ proc' = [proc EXCEPT ![r].pc = "r400"]
        /\ requests' = requests
     \/ /\ requests' = insertRow(requests, proc[r].user, now)
        /\ \E next \in {"upsertChat", "findChat"} :
             proc' = [proc EXCEPT ![r].pc = next,
                                  ![r].wrote = proc[r].wrote \cup {Len(requests) + 1}]
  /\ UNCHANGED <<now, tz, users, gateVars, REQUESTS_PER_DAY, overlapped>>

(* recordRequest: the insert resolves; POST then reads the body: 400 on    *)
(* no messages, upsertChat on no chatId, else the chat is looked up        *)
recordRequest(r) ==
  /\ proc[r].pc = "insert"
  /\ ~Settling
  /\ Len(requests) < MaxRecords
  /\ requests' = insertRow(requests, proc[r].user, now)
  /\ \E next \in {"r400", "upsertChat", "findChat"} :
       proc' = [proc EXCEPT ![r].pc = next,
                            ![r].wrote = proc[r].wrote \cup {Len(requests) + 1}]
  /\ UNCHANGED <<now, tz, users, gateVars, REQUESTS_PER_DAY, overlapped>>

(* await upsertChat(...) for a new chat resolves, and POST returns the     *)
(* response of createDataStreamResponse: the model stream is started       *)
POST_upsertChat(r) ==
  /\ proc[r].pc = "upsertChat"
  /\ proc' = [proc EXCEPT ![r].pc = "r200", ![r].upserts = proc[r].upserts + 1]
  /\ UNCHANGED <<now, tz, users, gateVars, requests, REQUESTS_PER_DAY, overlapped>>

(* db.query.chats.findFirst resolves: 404 unless the chat is the user's,   *)
(* else POST returns the response of createDataStreamResponse              *)
POST_findChat(r) ==
  /\ proc[r].pc = "findChat"
  /\ \E found \in BOOLEAN :
       proc' = [proc EXCEPT ![r].pc = IF found THEN "r200" ELSE "r404"]
  /\ UNCHANGED <<now, tz, users, gateVars, requests, REQUESTS_PER_DAY, overlapped>>

(* The data store fails: the awaited query rejects.  Neither checkRateLimit *)
(* nor recordRequest nor POST catches, so the rejection leaves POST: the   *)
(* request ends (threw); failed keeps which query it was.                  *)

(* POST has returned its response; the server takes the next request in   *)
(* the place of this one                                                   *)
POST_returned(r) ==
  /\ proc[r].pc \in {"r401", "r429", "r400", "r404", "r200"}
  /\ proc' = [proc EXCEPT ![r] = IdleProc]
  /\ UNCHANGED <<now, tz, users, gateVars, requests, REQUESTS_PER_DAY, overlapped>>

(* The rejection caught and taken for an admission *)
checkRateLimit_count_rejects_failOpen(r) ==
  /\ proc[r].pc = "count"
  /\ ~Settling
  /\ proc' = [proc EXCEPT ![r].pc = "insert", ![r].startOfDay = 0,
                          ![r].failed = "count"]
  /\ UNCHANGED <<now, tz, users, gateVars, requests, REQUESTS_PER_DAY, overlapped>>

(* checkRateLimit: db.query.users.findFirst rejects *)
checkRateLimit_findFirst_rejects(r) ==
  /\ proc[r].pc = "findFirst"
  /\ ~Settling
  /\ proc' = [proc EXCEPT ![r].pc = "threw", ![r].failed = "findFirst"]
  /\ UNCHANGED <<now, tz, users, gateVars, requests, REQUESTS_PER_DAY, overlapped>>

(* checkRateLimit: the count query rejects *)
checkRateLimit_count_rejects(r) ==
  /\ proc[r].pc = "count"
  /\ ~Settling
  /\ proc' = [proc EXCEPT ![r].pc = "threw", ![r].startOfDay = 0,
                          ![r].failed = "count"]
  /\ UNCHANGED <<now, tz, users, gateVars, requests, REQUESTS_PER_DAY, overlapped>>

(* recordRequest: the insert rejects, no row is written *)
recordRequest_rejects(r) ==
  /\ proc[r].pc = "insert"
  /\ ~Settling
  /\ proc' = [proc EXCEPT ![r].pc = "threw", ![r].failed = "insert"]
  /\ UNCHANGED <<now, tz, users, gateVars, requests, REQUESTS_PER_DAY, overlapped>>

(* The server clock advances *)
TickPost ==
  /\ now < LastInstant
  /\ ~Settling
  /\ now' = now + 1
  /\ UNCHANGED <<tz, users, gateVars, postVars>>

----------------------------------------------------------------------------
(* Initial states *)

InitShared ==
  /\ now = FirstInstant
  /\ users = [u \in {"alice", "root"} |-> [isAdmin |-> (u = "root")]]
  /\ userRequests = <<>>
  /\ requests = <<>>
  /\ last = [op |-> "none", user |-> NoUser, result |-> 0, prior |-> -1]
  /\ proc = [r \in ReqIds |-> IdleProc]
  /\ overlapped = {}

InitGate ==
  /\ InitShared
  /\ tz \in TZOffsets
  /\ DAILY_REQUEST_LIMIT \in Limits
  /\ REQUESTS_PER_DAY = 1

NextGate ==
  \/ \E u \in UserIds : CallCheckRateLimit(u)
  \/ \E u \in UserIds : CallGetUserDailyRequestCount(u)
  \/ \E u \in UserIds : CallIsUserAdmin(u)
  \/ \E u \in UserIds : CallAddUserRequest(u)
  \/ TickGate

SpecGate == InitGate /\ [][NextGate]_vars

InitPost ==
  /\ InitShared
  /\ tz = 0
  /\ REQUESTS_PER_DAY \in 0..MaxPerDay
  /\ DAILY_REQUEST_LIMIT = REQUESTS_PER_DAY

NextPost ==
  \/ \E r \in ReqIds : POST_auth(r)
  \/ \E r \in ReqIds : checkRateLimit_findFirst(r)
  \/ \E r \in ReqIds : checkRateLimit_count(r)
  \/ \E r \in ReqIds : recordRequest(r)
  \/ \E r \in ReqIds : POST_upsertChat(r)
  \/ \E r \in ReqIds : POST_findChat(r)
  \/ TickPost

SpecPost == InitPost /\ [][NextPost]_vars

(* POST with a data store that may fail *)
NextPostFail ==
  \/ NextPost
  \/ \E r \in ReqIds : checkRateLimit_findFirst_rejects(r)
  \/ \E r \in ReqIds : checkRateLimit_count_rejects(r)
  \/ \E r \in ReqIds : recordRequest_rejects(r)

SpecPostFail == InitPost /\ [][NextPostFail]_vars

(* POST serving request after request, NumReqs of them at a time.  A      *)
(* returned request touches nothing any more: its place is freed before    *)
(* any other step is taken.                                                *)
Returning == \E q \in ReqIds : proc[q].pc \in {"r401", "r429", "r400", "r404", "r200"}

NextPostLoop ==
  \/ \E r \in ReqIds : POST_returned(r)
  \/ ~Returning /\ NextPost

SpecPostLoop == InitPost /\ [][NextPostLoop]_vars


----------------------------------------------------------------------------
(* What the claims speak of *)

(* A user that is not privileged: no row in users, or isAdmin false *)
NonPrivileged(u) == u \notin DOMAIN users \/ ~users[u].isAdmin

(* The start of the current UTC day: the last instant up to now at which   *)
(* the UTC clock read midnight                                             *)
UTCDayStart == CHOOSE t \in 0..now :
  /\ t % DayLen = 0
  /\ \A t2 \in 0..now : t2 % DayLen = 0 => t2 <= t

(* The start of the current day of the server: the last instant up to now  *)
(* at which the server's local clock read midnight                         *)
ServerDayStart == CHOOSE t \in (0 - MaxTz)..now :
  /\ (t + tz) % DayLen = 0
  /\ \A t2 \in (0 - MaxTz)..now : (t2 + tz) % DayLen = 0 => t2 <= t

(* The rows of u in a table created at or after an instant *)
RowsSince(table, u, start) ==
  Len(SelectSeq(table, LAMBDA row : row.userId = u /\ row.createdAt >= start))

Admitted == {"insert", "r400", "upsertChat", "findChat", "r404", "r200"}
Recorded == {"r400", "upsertChat", "findChat", "r404", "r200"}

----------------------------------------------------------------------------
(* C1: for a non-privileged user whose requests never overlap between      *)
(* check and record, the rows of the user in the current UTC day never     *)
(* exceed the daily limit.                                                 *)
C1_SerialWithinLimit ==
  \A u \in UserIds :
    NonPrivileged(u) /\ u \notin overlapped
      => RowsSince(requests, u, UTCDayStart) <= REQUESTS_PER_DAY

(* Two requests of alice, one after the other: one recorded, one refused *)
C1_Witness ==
  /\ "alice" \notin overlapped
  /\ REQUESTS_PER_DAY = 1
  /\ RowsSince(requests, "alice", UTCDayStart) = 1
  /\ \E r1, r2 \in ReqIds :
       /\ proc[r1].user = "alice" /\ proc[r1].pc \in Recorded
       /\ proc[r2].user = "alice" /\ proc[r2].pc = "r429"

(* C2: every admitted request of a non-privileged user counted fewer rows  *)
(* than the limit, and two overlapping requests of one user may both do    *)
(* so and both record, which puts the user over the limit (the witness).   *)
C2_AdmittedSawBelowLimit ==
  \A r \in ReqIds :
    proc[r].pc \in Admitted /\ NonPrivileged(proc[r].user)
      => proc[r].seen < REQUESTS_PER_DAY

(* Both requests counted 0 with limit 1, both recorded: 2 rows in the day *)
C2_Witness ==
  \E r1, r2 \in ReqIds :
    /\ r1 # r2
    /\ proc[r1].user = proc[r2].user
    /\ NonPrivileged(proc[r1].user)
    /\ proc[r1].user \in overlapped
    /\ proc[r1].pc \in Recorded /\ proc[r2].pc \in Recorded
    /\ proc[r1].seen = 0 /\ proc[r2].seen = 0
    /\ REQUESTS_PER_DAY = 1
    /\ RowsSince(requests, proc[r1].user, UTCDayStart) = 2

(* C3: checkRateLimit answers a privileged user allowed = true,           *)
(* remaining = -1, limit = -1 whatever the rows of the user, and without   *)
(* running the count.                                                      *)
C3_PrivilegedUnlimited ==
  last.op = "checkRateLimit" /\ ~NonPrivileged(last.user) =>
    /\ last.result.allowed
    /\ last.result.remaining = -1
    /\ last.result.limit = -1
    /\ ~last.result.counted

(* root checked with more rows today than the limit *)
C3_Witness ==
  /\ last.op = "checkRateLimit" /\ last.user = "root"
  /\ DAILY_REQUEST_LIMIT >= 1
  /\ RowsSince(userRequests, "root", ServerDayStart) > DAILY_REQUEST_LIMIT
  /\ RowsSince(userRequests, "root", UTCDayStart) > DAILY_REQUEST_LIMIT

C8_WindowIsUTCDay ==
  /\ last.op = "getUserDailyRequestCount" =>
       last.result = RowsSince(userRequests, last.user, UTCDayStart)
  /\ last.op = "checkRateLimit" /\ NonPrivileged(last.user) =>
       last.result.allowed =
         (RowsSince(userRequests, last.user, UTCDayStart) < DAILY_REQUEST_LIMIT)

(* C10: getUserDailyRequestCount right after addUserRequest, for the same  *)
(* user, returns the count before the insert plus one; and addUserRequest  *)
(* leaves the counts of the other users as they were.                      *)
C10_RecordThenCount ==
  [][/\ last'.op = "getUserDailyRequestCount" /\ last.op = "addUserRequest"
        /\ last'.user = last.user
       => last'.result = last.prior + 1
     /\ last'.op = "addUserRequest"
       => \A v \in UserIds \ {last'.user} :
            getUserDailyRequestCount(v)' = getUserDailyRequestCount(v)]_vars

(* alice's count taken right after her second insert of the day, while     *)
(* root has rows too                                                       *)
C10_Witness ==
  /\ last.op = "getUserDailyRequestCount" /\ last.user = "alice"
  /\ last.prior = 1 /\ last.result = 2
  /\ RowsSince(userRequests, "root", 0) >= 1

(* C7: with the limit 0, checkRateLimit answers allowed = false,           *)
(* remaining = 0, limit = 0 to every non-privileged user, no request of    *)
(* such a user gets past the check, and no row of such a user exists.      *)
C7_LimitZeroAdmitsNone ==
  REQUESTS_PER_DAY = 0 /\ DAILY_REQUEST_LIMIT = 0 =>
    /\ \A u \in UserIds : NonPrivileged(u) =>
         /\ ~checkRateLimit(u).allowed
         /\ checkRateLimit(u).remaining = 0
         /\ checkRateLimit(u).limit = 0
    /\ \A r \in ReqIds : NonPrivileged(proc[r].user) => proc[r].pc \notin Admitted
    /\ \A i \in DOMAIN requests : ~NonPrivileged(requests[i].userId)

(* Limit 0: a request of alice refused with no row of hers in the table,   *)
(* while a request of root was recorded                                    *)
C7_Witness ==
  /\ REQUESTS_PER_DAY = 0
  /\ \E r \in ReqIds : proc[r].user = "alice" /\ proc[r].pc = "r429" /\ proc[r].seen = 0
  /\ \E r \in ReqIds : proc[r].user = "root" /\ proc[r].pc \in Recorded

(* C9: a request that passed checkRateLimit and recorded has inserted      *)
(* exactly one row, of its user; a request that has not (401, 429, or not  *)
(* yet there) has inserted none; and the table holds no other rows.        *)
C9_OneRowPerAdmitted ==
  /\ \A r \in ReqIds :
       IF proc[r].pc \in Recorded
       THEN \E i \in DOMAIN requests :
              proc[r].wrote = {i} /\ requests[i].userId = proc[r].user
       ELSE proc[r].wrote = {}
  /\ \A r1, r2 \in ReqIds : r1 # r2 => proc[r1].wrote \cap proc[r2].wrote = {}
  /\ DOMAIN requests = UNION {proc[r].wrote : r \in ReqIds}

(* One request refused with 429 and one recorded, one row in the table *)
C9_Witness ==
  /\ Len(requests) = 1
  /\ \E r1, r2 \in ReqIds :
       /\ proc[r1].pc = "r429"
       /\ proc[r2].pc \in Recorded /\ proc[r2].wrote = {1}

(* C11: checkRateLimit for an identifier with no row in users returns a    *)
(* decision (no error), the one of a limited user: it ran the count, and   *)
(* it equals the decision for every non-admin user with the same rows.     *)
C11_AbsentUserIsLimited ==
  last.op = "checkRateLimit" /\ last.user \notin DOMAIN users =>
    /\ DOMAIN last.result = {"allowed", "remaining", "limit", "counted"}
    /\ last.result.counted
    /\ last.result.limit = DAILY_REQUEST_LIMIT
    /\ \A v \in DOMAIN users :
         /\ ~users[v].isAdmin
         /\ \A t \in 0..now : RowsSince(userRequests, v, t)
                                = RowsSince(userRequests, last.user, t)
         => last.result = checkRateLimit(v)

(* ghost checked and refused while ghost and alice each have one row, of   *)
(* the same instant                                                        *)
C11_Witness ==
  /\ last.op = "checkRateLimit" /\ last.user = "ghost"
  /\ DAILY_REQUEST_LIMIT = 1
  /\ RowsSince(userRequests, "ghost", 0) = 1
  /\ \A t \in 0..now : RowsSince(userRequests, "alice", t)
                         = RowsSince(userRequests, "ghost", t)
  /\ ~last.result.allowed

(* C12: a request whose lookup, count or insert failed ends there: it was  *)
(* given no decision and is not admitted, it wrote no row and started      *)
(* neither an upsert nor the stream, the failing step leaves the table as  *)
(* it was, and the request takes no further step (nothing is retried).     *)
C12_FailurePropagates ==
  [][\A r \in ReqIds :
       /\ proc'[r].failed # "none" =>
            /\ proc'[r].pc = "threw"
            /\ proc'[r].wrote = {}
            /\ proc'[r].upserts = 0
       /\ proc'[r].failed # "none" /\ proc[r].failed = "none" => requests' = requests
       /\ proc[r].failed # "none" => proc'[r] = proc[r]]_vars

(* One request failed in its count, another in its insert; the table is    *)
(* empty                                                                   *)
C12_Witness ==
  /\ requests = <<>>
  /\ \E r1, r2 \in ReqIds :
       /\ proc[r1].pc = "threw" /\ proc[r1].failed = "count"
       /\ proc[r2].pc = "threw" /\ proc[r2].failed = "insert"

(* C13: the ledger is append-only and the checks are read-only: a call of  *)
(* checkRateLimit, getUserDailyRequestCount or isUserAdmin leaves the      *)
(* ledger and the users as they were; every step keeps the rows there are, *)
(* in place and unaltered, and only addUserRequest adds one; so the count  *)
(* of a user's rows since a fixed instant never decreases.                 *)
C13_AppendOnlyReadOnlyChecks ==
  [][/\ users' = users
     /\ Len(userRequests') >= Len(userRequests)
     /\ SubSeq(userRequests', 1, Len(userRequests)) = userRequests
     /\ userRequests' # userRequests =>
          /\ last'.op = "addUserRequest"
          /\ userRequests' = Append(userRequests, [userId |-> last'.user, createdAt |-> now])
     /\ last'.op \in {"checkRateLimit", "getUserDailyRequestCount", "isUserAdmin"}
          => userRequests' = userRequests
     /\ userRequests' # userRequests =>
          \A u \in UserIds : \A t \in FirstInstant..LastInstant :
            RowsSince(userRequests', u, t) >= RowsSince(userRequests, u, t)]_vars

(* A check made on a later day than a row of the ledger: the row is still  *)
(* there                                                                   *)
C13_Witness ==
  /\ last.op = "checkRateLimit"
  /\ Len(userRequests) >= 2
  /\ \E i \in DOMAIN userRequests : userRequests[i].createdAt < ServerDayStart
  /\ \E i \in DOMAIN userRequests : userRequests[i].createdAt >= ServerDayStart

(* C14: with a daily limit of at least 1 and at most K requests of a       *)
(* non-privileged user in flight at a time (K = 1 while no two of them     *)
(* ever overlapped between check and record, else the NumReqs the server   *)
(* runs at a time), the rows of that user in any one UTC day never exceed  *)
(* limit + K - 1, under every interleaving and across midnight.            *)
C14_OvershootBounded ==
  \A u \in UserIds : \A d \in {setUTCHours0(t) : t \in FirstInstant..LastInstant} :
    NonPrivileged(u) /\ REQUESTS_PER_DAY >= 1 =>
      RowsSince(requests, u, d) - RowsSince(requests, u, d + DayLen)
        <= REQUESTS_PER_DAY + (IF u \in overlapped THEN NumReqs ELSE 1) - 1

(* Two requests of alice raced past the check at limit 1 and both wrote a  *)
(* row the same day; a third, after them, was denied                       *)
C14_Witness ==
  /\ REQUESTS_PER_DAY = 1
  /\ "alice" \in overlapped
  /\ RowsSince(requests, "alice", UTCDayStart) = 2
  /\ \E r \in ReqIds : proc[r].pc = "r429" /\ proc[r].user = "alice"

(* C15: a request answered 400 or 404 passed the check and has appended    *)
(* exactly one row of its user before its body was looked at; the row      *)
(* counts against the user for the day it was written, and no chat upsert  *)
(* and no stream was made for the request.                                 *)
C15_RejectedBodyStillRecorded ==
  \A r \in ReqIds :
    proc[r].pc \in {"r400", "r404"} =>
      /\ Cardinality(proc[r].wrote) = 1
      /\ \A i \in proc[r].wrote :
           /\ i \in DOMAIN requests
           /\ requests[i].userId = proc[r].user
           /\ countWhere(requests, proc[r].user, setUTCHours0(requests[i].createdAt)) >= 1
      /\ proc[r].upserts = 0
      /\ NonPrivileged(proc[r].user) => proc[r].seen < REQUESTS_PER_DAY

(* At limit 1 alice's request with an empty body was answered 400, and her *)
(* next request of the same day is denied                                  *)
C15_Witness ==
  /\ REQUESTS_PER_DAY = 1
  /\ \E r1, r2 \in ReqIds :
       /\ proc[r1].pc = "r400" /\ proc[r1].user = "alice"
       /\ proc[r2].pc = "r429" /\ proc[r2].user = "alice"
       /\ "alice" \notin overlapped
       /\ RowsSince(requests, "alice", UTCDayStart) = 1

(* C16: every step that makes a chat upsert or starts the stream of a      *)
(* request (the request reaches its 200 response) is taken by a request    *)
(* that is past its check and its record: checkRateLimit admitted it (an   *)
(* admin, or a count below the limit), its own insert has completed and    *)
(* its row is in the table, and no query of it failed.                     *)
C16_NoMeteredWorkUnrecorded ==
  [][\A r \in ReqIds :
       proc'[r].upserts > proc[r].upserts \/ (proc'[r].pc = "r200" /\ proc[r].pc # "r200")
       => /\ proc[r].pc \in {"upsertChat", "findChat"}
          /\ proc[r].failed = "none"
          /\ isUserAdmin(proc[r].user) \/ proc[r].seen < REQUESTS_PER_DAY
          /\ proc[r].wrote # {}
          /\ \A i \in proc[r].wrote :
               i \in DOMAIN requests /\ requests[i].userId = proc[r].user]_vars

(* A request of alice has upserted its chat and started the stream, with   *)
(* its row in the table; another one, whose insert failed, has done        *)
(* neither                                                                 *)
C16_Witness ==
  \E r1, r2 \in ReqIds :
    /\ proc[r1].pc = "r200" /\ proc[r1].user = "alice" /\ proc[r1].upserts = 1
    /\ \E i \in proc[r1].wrote : requests[i].userId = "alice"
    /\ proc[r2].failed = "insert" /\ proc[r2].upserts = 0

(* C17: denial is stable within a UTC day: when checkRateLimit denies a    *)
(* non-privileged user, it still denies the user after every step that     *)
(* leaves the clock in the same UTC day.                                   *)
C17_DenialStableInUTCDay ==
  [][\A u \in UserIds :
       /\ NonPrivileged(u)
       /\ ~checkRateLimit(u).allowed
       /\ UTCDayStart' = UTCDayStart
       => ~checkRateLimit(u)'.allowed]_vars

(* C18: users are isolated: a call made for user A (addUserRequest, or any *)
(* of the reading functions) leaves, for every other user B, the decision  *)
(* checkRateLimit returns and the count getUserDailyRequestCount returns   *)
(* exactly as they were.                                                   *)
C18_UsersIsolated ==
  [][\A B \in UserIds :
       /\ last'.op \in {"addUserRequest", "checkRateLimit",
                        "getUserDailyRequestCount", "isUserAdmin"}
       /\ last'.user # B
       => /\ checkRateLimit(B)' = checkRateLimit(B)
          /\ getUserDailyRequestCount(B)' = getUserDailyRequestCount(B)]_vars

(* alice has just been recorded past the limit and is denied, while ghost  *)
(* with one row less is still allowed                                      *)
C18_Witness ==
  /\ last.op = "addUserRequest" /\ last.user = "alice"
  /\ DAILY_REQUEST_LIMIT = 2
  /\ getUserDailyRequestCount("alice") = 2
  /\ getUserDailyRequestCount("ghost") = 1
  /\ ~checkRateLimit("alice").allowed
  /\ checkRateLimit("ghost").allowed /\ checkRateLimit("ghost").remaining = 1

(* C19: the two gates agree: on the same ledger, with the same limit and   *)
(* at the same instant, the boolean checkRateLimit of the route equals the *)
(* allowed field of checkRateLimit of queries.ts, for every user (admin,   *)
(* non-admin, absent).                                                     *)
C19_GatesAgree ==
  \A u \in UserIds :
    checkRateLimitBoolean(userRequests, DAILY_REQUEST_LIMIT, u) = checkRateLimit(u).allowed

====
